---- MODULE Spec2Model ----
(***************************************************************************)
(* Model of Easy-Form (src/src/assets/form/Form.ts): FormField,            *)
(* FormFieldGroup and Form over an explicit object heap, so that object    *)
(* identity (structural sharing, immutability) is observable.              *)
(*                                                                         *)
(* Strings that the code inspects (property keys, dot-delimited paths) are *)
(* sequences of one-character strings, so that String.split and the        *)
(* array-index test of property ordering are computed, not assumed.        *)
(***************************************************************************)
EXTENDS Integers, Sequences, FiniteSets, TLC

VARIABLES heap, held, last, calls

vars == <<heap, held, last, calls>>

(***************************************************************************)
(* Bounds                                                                  *)
(***************************************************************************)
\* number of objects handed to the callers: the constructed Form plus one per
\* successful write
MaxHeld == 2

(***************************************************************************)
(* JavaScript values                                                       *)
(***************************************************************************)
Num(n) == [t |-> "number", v |-> n]

Ref(id) == [t |-> "object", v |-> id]

Undefined == [t |-> "undefined", v |-> 0]

Function == [t |-> "function", v |-> 0]

\* the numbers a leaf is constructed with or is given by a write
Values == {Num(0), Num(1), Num(2)}

\* the numbers the write operations are offered
WriteValues == {Num(0), Num(2)}

(***************************************************************************)
(* Either<FailedMessage, R> of @sweet-monads/either                        *)
(***************************************************************************)
Right(v) == [right |-> TRUE, msg |-> "", val |-> v]

Left(m) == [right |-> FALSE, msg |-> m, val |-> Undefined]

(***************************************************************************)
(* Strings as character sequences                                          *)
(***************************************************************************)
Digits == {"0", "1", "2", "3", "4", "5", "6", "7", "8", "9"}

DigitValue(c) == CASE c = "0" -> 0 [] c = "1" -> 1 [] c = "2" -> 2 [] c = "3" -> 3
                   [] c = "4" -> 4 [] c = "5" -> 5 [] c = "6" -> 6 [] c = "7" -> 7
                   [] c = "8" -> 8 [] OTHER -> 9

\* a property key that is a canonical array index ("0", "7", "10", not "01")
IsArrayIndex(k) ==
    /\ Len(k) > 0
    /\ \A i \in 1..Len(k) : k[i] \in Digits
    /\ (Len(k) > 1 => k[1] # "0")

RECURSIVE ToNumber(_)
ToNumber(k) ==
    IF Len(k) = 0 THEN 0
    ELSE 10 * ToNumber(SubSeq(k, 1, Len(k) - 1)) + DigitValue(k[Len(k)])

RECURSIVE SplitFrom(_, _, _, _)
SplitFrom(s, i, cur, out) ==
    IF i > Len(s) THEN Append(out, cur)
    ELSE IF s[i] = "." THEN SplitFrom(s, i + 1, <<>>, Append(out, cur))
    ELSE SplitFrom(s, i + 1, Append(cur, s[i]), out)

\* path.split('.')
Split(s) == SplitFrom(s, 1, <<>>, <<>>)

RECURSIVE Join(_)
\* segments joined with '.', the path string a caller writes
Join(segs) ==
    IF Len(segs) = 0 THEN <<>>
    ELSE IF Len(segs) = 1 THEN segs[1]
    ELSE segs[1] \o <<".">> \o Join(Tail(segs))

(***************************************************************************)
(* Property order of a plain object                                        *)
(***************************************************************************)
RECURSIVE InsertIndexKey(_, _)
\* insert an array-index key into an ascending run of array-index keys
InsertIndexKey(run, k) ==
    IF Len(run) = 0 THEN <<k>>
    ELSE IF ToNumber(k) < ToNumber(run[1]) THEN <<k>> \o run
    ELSE <<run[1]>> \o InsertIndexKey(Tail(run), k)

RECURSIVE IndexKeysOf(_)
IndexKeysOf(decl) ==
    IF Len(decl) = 0 THEN <<>>
    ELSE IF IsArrayIndex(decl[Len(decl)])
         THEN InsertIndexKey(IndexKeysOf(SubSeq(decl, 1, Len(decl) - 1)), decl[Len(decl)])
         ELSE IndexKeysOf(SubSeq(decl, 1, Len(decl) - 1))

RECURSIVE StringKeysOf(_)
StringKeysOf(decl) ==
    IF Len(decl) = 0 THEN <<>>
    ELSE IF IsArrayIndex(decl[1]) THEN StringKeysOf(Tail(decl))
    ELSE <<decl[1]>> \o StringKeysOf(Tail(decl))

\* the order in which Object.values / spread enumerate the own properties of
\* an object whose properties were created in the order decl: array-index
\* keys ascending, then the other keys in creation order
OwnPropertyKeys(decl) == IndexKeysOf(decl) \o StringKeysOf(decl)

\* the properties a plain object inherits from Object.prototype (one stands
\* for all of them)
ProtoKeys == { <<"v", "a", "l", "u", "e", "O", "f">> }

(***************************************************************************)
(* Heap objects                                                            *)
(***************************************************************************)
NoChild == [k \in {} |-> 0]

\* new FormField(value, validators)
FormFieldObj(value, validators) ==
    [kind |-> "field", value |-> value, validators |-> validators,
     fields |-> 0, keys |-> <<>>, child |-> NoChild, declared |-> <<>>]

\* new FormFieldGroup(fields, groupValidators)
FormFieldGroupObj(fields, groupValidators) ==
    [kind |-> "group", value |-> Undefined, validators |-> groupValidators,
     fields |-> fields, keys |-> <<>>, child |-> NoChild, declared |-> <<>>]

\* new Form(fields, formValidators)
FormObj(fields, formValidators) ==
    [kind |-> "form", value |-> Undefined, validators |-> formValidators,
     fields |-> fields, keys |-> <<>>, child |-> NoChild, declared |-> <<>>]

\* an object literal { k1: c1, k2: c2, ... } written in the order decl;
\* declared remembers the order of the literal
RecordObj(decl, child) ==
    [kind |-> "record", value |-> Undefined, validators |-> <<>>,
     fields |-> 0, keys |-> OwnPropertyKeys(decl), child |-> child,
     declared |-> decl]

\* allocation: the new object gets the next identity
Alloc(h, o) == Append(h, o)

NewId(h) == Len(h) + 1

IsFormField(h, v) == v.t = "object" /\ h[v.v].kind = "field"

IsFormFieldGroup(h, v) == v.t = "object" /\ h[v.v].kind = "group"

\* value.validateGroup is a function: validateGroup is a method of
\* FormFieldGroup and of nothing else
HasValidateGroup(h, v) == v.t = "object" /\ h[v.v].kind = "group"

\* key in obj
HasProperty(h, obj, key) == key \in DOMAIN h[obj].child \/ key \in ProtoKeys

\* obj[key]
GetProperty(h, obj, key) ==
    IF key \in DOMAIN h[obj].child THEN Ref(h[obj].child[key])
    ELSE IF key \in ProtoKeys THEN Function
    ELSE Undefined

\* Object.values(obj), as object identities
ObjectValues(h, obj) == [i \in 1..Len(h[obj].keys) |-> h[obj].child[h[obj].keys[i]]]

\* { [key]: id }: the spread of obj forgotten
SpreadWithOnlyKey(h, obj, key, id) ==
    [kind |-> "record", value |-> Undefined, validators |-> <<>>, fields |-> 0,
     keys |-> <<key>>, child |-> [k \in {key} |-> id], declared |-> <<key>>]

\* every property, not only key, set to the new child
SpreadWithEveryKey(h, obj, key, id) ==
    [kind |-> "record", value |-> Undefined, validators |-> <<>>, fields |-> 0,
     keys |-> h[obj].keys, child |-> [k \in DOMAIN h[obj].child \cup {key} |-> id],
     declared |-> h[obj].declared]

\* the property deleted and created again: key becomes the last property
SpreadWithKeyLast(h, obj, key, id) ==
    [kind |-> "record", value |-> Undefined, validators |-> <<>>, fields |-> 0,
     keys |-> SelectSeq(h[obj].keys, LAMBDA k : k # key) \o <<key>>,
     child |-> [k \in DOMAIN h[obj].child \cup {key} |->
                   IF k = key THEN id ELSE h[obj].child[k]],
     declared |-> SelectSeq(h[obj].declared, LAMBDA k : k # key) \o <<key>>]

\* { ...obj, [key]: id }
SpreadWith(h, obj, key, id) ==
    [kind |-> "record", value |-> Undefined, validators |-> <<>>, fields |-> 0,
     keys |-> IF key \in DOMAIN h[obj].child THEN h[obj].keys
              ELSE OwnPropertyKeys(h[obj].keys \o <<key>>),
     child |-> [k \in DOMAIN h[obj].child \cup {key} |->
                   IF k = key THEN id ELSE h[obj].child[k]],
     declared |-> IF key \in DOMAIN h[obj].child THEN h[obj].declared
                  ELSE h[obj].declared \o <<key>>]

(***************************************************************************)
(* Validators supplied by the caller (README and tests)                    *)
(***************************************************************************)
\* value.length > 0; a number stands for a string of that many characters
NotEmptyValue(v) ==
    IF v.t = "string" THEN v.v # "" ELSE v.t = "number" /\ v.v > 0

\* notEmpty, isValidAge / isAdult, minLength(1): value => Either;
\* arbitraryRight: a validator that succeeds with a value of its own making
ApplyFieldValidator(name, v) ==
    CASE name = "notEmpty" ->
           IF NotEmptyValue(v) THEN Right(v)
           ELSE Left("Field cannot be empty")
      [] name = "isValidAge" ->
           IF v.t = "number" /\ v.v >= 2 THEN Right(v)
           ELSE Left("Must be 18 or older")
      [] name = "minLength" ->
           IF v.t = "number" /\ v.v >= 1 THEN Right(v)
           ELSE Left("Must be at least 1 characters")
      [] name = "arbitraryRight" ->
           IF v.t = "number" THEN Right(Num((v.v + 1) % 3)) ELSE Right(Num(0))
      [] OTHER -> Right(v)

\* the FormField children of a fields object
FieldChildren(h, obj) ==
    {h[obj].child[k] : k \in {x \in DOMAIN h[obj].child : h[h[obj].child[x]].kind = "field"}}

\* the FormFieldGroup children of a fields object
GroupChildren(h, obj) ==
    {h[obj].child[k] : k \in {x \in DOMAIN h[obj].child : h[h[obj].child[x]].kind = "group"}}

\* { name: nameField }: an object literal that a validator call evaluates,
\* identical to no object of the tree
FreshObject == [t |-> "fresh object", v |-> 0]

\* addressValidator, userEligibilityValidator, checkSubmissionRate,
\* passwordsMatch, the form validator of createBasicForm: fields => Either
ApplyGroupValidator(h, name, obj) ==
    CASE name = "addressValidator" ->
           IF \A c \in FieldChildren(h, obj) : NotEmptyValue(h[c].value)
           THEN Right(Ref(obj))
           ELSE Left("Address must be complete")
      [] name = "userEligibilityValidator" ->
           IF /\ \A c \in FieldChildren(h, obj) :
                    h[c].value.t = "number" => h[c].value.v >= 2
              /\ \A g \in GroupChildren(h, obj) :
                    \A c \in FieldChildren(h, h[g].fields) : NotEmptyValue(h[c].value)
           THEN Right(Ref(obj))
           ELSE Left("User must be 18+ and have a complete address")
      [] name = "checkSubmissionRate" ->
           Left("Too many submissions. Please wait before submitting again.")
      [] name = "passwordsMatch" ->
           IF \A c, d \in FieldChildren(h, obj) : h[c].value = h[d].value
           THEN Right(Ref(obj))
           ELSE Left("Passwords must match")
      [] name = "basicFormValidator" -> Right(FreshObject)
      [] OTHER -> Right(Ref(obj))

\* one instrumented invocation of a validator: which validator, of which
\* node, with which argument
Call(owner, tier, name, arg) ==
    [owner |-> owner, tier |-> tier, validator |-> name, arg |-> arg]

(***************************************************************************)
(* FormField.validate                                                      *)
(***************************************************************************)
\* a reduce that calls every validator and keeps the first failure
FieldReduceStepCallsAll(acc, validator) ==
    [res |-> IF acc.right THEN ApplyFieldValidator(validator, acc.val) ELSE acc,
     invoked |-> TRUE]

\* a reduce that hands every validator the value the reduce started from
FieldReduceStepKeepsValue(acc, validator) ==
    IF acc.right
    THEN [res |-> IF ApplyFieldValidator(validator, acc.val).right
                  THEN acc ELSE ApplyFieldValidator(validator, acc.val),
          invoked |-> TRUE]
    ELSE [res |-> acc, invoked |-> FALSE]

\* (acc, validator) => acc.chain(validator)
FieldReduceStep(acc, validator) ==
    IF acc.right
    THEN [res |-> ApplyFieldValidator(validator, acc.val), invoked |-> TRUE]
    ELSE [res |-> acc, invoked |-> FALSE]

RECURSIVE FieldReduce(_, _, _, _, _)
FieldReduce(h, id, i, acc, log) ==
    IF i > Len(h[id].validators) THEN [res |-> acc, log |-> log]
    ELSE LET step == FieldReduceStep(acc, h[id].validators[i])
         IN  FieldReduce(h, id, i + 1, step.res,
                 IF step.invoked
                 THEN Append(log, Call(id, "field", h[id].validators[i], acc.val))
                 ELSE log)

FieldValidate(h, id) == FieldReduce(h, id, 1, Right(h[id].value), <<>>)

(***************************************************************************)
(* FormFieldGroup.validateGroup / Form.validateForm                        *)
(***************************************************************************)
\* a child's failure wrapped in an error of the enclosing node
MapToFieldsWraps(res, obj) ==
    IF res.right THEN Right(Ref(obj)) ELSE Left("Validation failed: " \o res.msg)

\* Either.map(() => this.fields)
MapToFields(res, obj) == IF res.right THEN Right(Ref(obj)) ELSE res

\* the success of the node's validators mapped back to this.fields
ChainResultMapsToFields(fieldRes, groupRes) ==
    IF fieldRes.right /\ ~groupRes.right THEN groupRes ELSE fieldRes

\* fieldValidationResults.chain(() => groupValidationResult)
ChainResult(fieldRes, groupRes) == IF fieldRes.right THEN groupRes ELSE fieldRes

\* (acc, validator) => acc.chain(() => validator(this.fields))
OwnReduceStep(h, obj, acc, validator) ==
    IF acc.right
    THEN [res |-> ApplyGroupValidator(h, validator, obj), invoked |-> TRUE]
    ELSE [res |-> acc, invoked |-> FALSE]

RECURSIVE OwnReduce(_, _, _, _, _)
OwnReduce(h, id, i, acc, log) ==
    IF i > Len(h[id].validators) THEN [res |-> acc, log |-> log]
    ELSE LET step == OwnReduceStep(h, h[id].fields, acc, h[id].validators[i])
         IN  OwnReduce(h, id, i + 1, step.res,
                 IF step.invoked
                 THEN Append(log, Call(id, h[id].kind, h[id].validators[i],
                                       Ref(h[id].fields)))
                 ELSE log)

RECURSIVE ValidateGroup(_, _)
RECURSIVE ChildrenReduce(_, _, _, _, _)
\* Object.values(this.fields).reduce((acc, field) => acc.chain(() => ...))
ChildrenReduce(h, id, i, acc, log) ==
    LET children == ObjectValues(h, h[id].fields)
    IN  IF i > Len(children) THEN [res |-> acc, log |-> log]
        ELSE IF ~acc.right THEN ChildrenReduce(h, id, i + 1, acc, log)
        ELSE LET r == IF h[children[i]].kind = "field"
                      THEN FieldValidate(h, children[i])
                      ELSE ValidateGroup(h, children[i])
             IN  ChildrenReduce(h, id, i + 1, MapToFields(r.res, h[id].fields),
                                log \o r.log)

\* validateGroup of a FormFieldGroup and validateForm of a Form: the same body
ValidateGroup(h, id) ==
    LET fieldValidationResults ==
            ChildrenReduce(h, id, 1, Right(Ref(h[id].fields)), <<>>)
        \* a const initialised before the final chain: the reduce over the
        \* node's own validators runs whatever the children returned
        groupValidationResult ==
            OwnReduce(h, id, 1, Right(Ref(h[id].fields)), <<>>)
    IN  [res |-> ChainResult(fieldValidationResults.res, groupValidationResult.res),
         log |-> fieldValidationResults.log \o groupValidationResult.log]

ValidateForm(h, id) == ValidateGroup(h, id)

(***************************************************************************)
(* Writes                                                                  *)
(***************************************************************************)
\* the outcome of a call: a throw or a returned value, the heap it leaves and
\* the validator invocations it made
Threw(h, m) == [threw |-> TRUE, err |-> m, heap |-> h, ret |-> Undefined, log |-> <<>>]

Returned(h, v) == [threw |-> FALSE, err |-> "", heap |-> h, ret |-> v, log |-> <<>>]

\* the outcome next of a call that continues the call with outcome r
Then(r, next) == [next EXCEPT !.log = r.log \o @]

\* new FormField(this.value, this.validators): the new value dropped
FieldSetNewValueKeepsOld(h, id, newValue) ==
    Returned(Alloc(h, FormFieldObj(h[id].value, h[id].validators)), Ref(NewId(h)))

\* this.value = newValue; return this
FieldSetNewValueInPlace(h, id, newValue) ==
    Returned([h EXCEPT ![id].value = newValue], Ref(id))

\* new FormField(newValue): the validators dropped
FieldSetNewValueNoValidators(h, id, newValue) ==
    Returned(Alloc(h, FormFieldObj(newValue, <<>>)), Ref(NewId(h)))

\* the new value validated first and kept only when the validators accept it
FieldSetNewValueValidates(h, id, newValue) ==
    LET new == Alloc(h, FormFieldObj(newValue, h[id].validators))
        v == FieldValidate(new, NewId(h))
    IN  IF v.res.right THEN [Returned(new, Ref(NewId(h))) EXCEPT !.log = v.log]
        ELSE [Returned(Alloc(h, FormFieldObj(h[id].value, h[id].validators)),
                       Ref(NewId(h))) EXCEPT !.log = v.log]

\* FormField.setNewValue: new FormField(newValue, this.validators)
FieldSetNewValue(h, id, newValue) ==
    Returned(Alloc(h, FormFieldObj(newValue, h[id].validators)), Ref(NewId(h)))

\* current.fields = fields; return current
RewrapGroupInPlace(h, id, fields) ==
    Returned([h EXCEPT ![id].fields = fields], Ref(id))

\* new FormFieldGroup(current.getFields(), ...): the updated fields dropped
RewrapGroupKeepsFields(h, id, fields) ==
    Returned(Alloc(h, FormFieldGroupObj(h[id].fields, h[id].validators)), Ref(NewId(h)))

\* new FormFieldGroup(fields, current.getGroupValidators())
RewrapGroup(h, id, fields) ==
    Returned(Alloc(h, FormFieldGroupObj(fields, h[id].validators)), Ref(NewId(h)))

\* this.fields = fields; return this
RewrapFormInPlace(h, id, fields) ==
    Returned([h EXCEPT ![id].fields = fields], Ref(id))

\* new Form(fields, this.formValidators)
RewrapForm(h, id, fields) ==
    Returned(Alloc(h, FormObj(fields, h[id].validators)), Ref(NewId(h)))

\* { ...obj, [first]: value }: the child stored under the first key of obj
SpreadAllocFirstKey(h, obj, key, id) ==
    Returned(Alloc(h, SpreadWith(h, obj, h[obj].keys[1], id)), Ref(NewId(h)))

\* { ...obj, [key]: value } as a new object
SpreadAlloc(h, obj, key, id) ==
    Returned(Alloc(h, SpreadWith(h, obj, key, id)), Ref(NewId(h)))

RECURSIVE UpdateNestedFieldTyped(_, _, _, _)
UpdateNestedFieldTyped(h, obj, path, newValue) ==
    IF Len(path) = 0 THEN Threw(h, "Invalid path: cannot replace entire object")
    ELSE LET head == Head(path)
             tail == Tail(path)
         IN  IF ~HasProperty(h, obj, head) THEN Threw(h, "Invalid path: key not found")
             ELSE LET current == GetProperty(h, obj, head)
                  IN  IF IsFormField(h, current)
                      THEN IF Len(tail) = 0
                           THEN LET f == FieldSetNewValue(h, current.v, newValue)
                                IN  Then(f, SpreadAlloc(f.heap, obj, head, f.ret.v))
                           ELSE Threw(h, "Cannot traverse deeper into FormField")
                      ELSE IF IsFormFieldGroup(h, current)
                      THEN LET r == UpdateNestedFieldTyped(h, h[current.v].fields,
                                                           tail, newValue)
                           IN  IF r.threw THEN Then(r, Threw(h, r.err))
                               ELSE LET g == RewrapGroup(r.heap, current.v, r.ret.v)
                                    IN  Then(r, SpreadAlloc(g.heap, obj, head, g.ret.v))
                      ELSE Threw(h, "Unsupported field type at path")

\* the update starts from the fields of the form first constructed instead
\* of this.fields
FormSetValueByPathStale(h, id, path, newValue) ==
    LET first == CHOOSE f \in 1..Len(h) :
                     h[f].kind = "form" /\ \A g \in 1..(f - 1) : h[g].kind # "form"
        updatedFields == UpdateNestedFieldTyped(h, h[first].fields, Split(path), newValue)
    IN  IF updatedFields.threw THEN updatedFields
        ELSE Then(updatedFields, RewrapForm(updatedFields.heap, id, updatedFields.ret.v))

\* a failed update swallowed: the receiver is returned instead of the throw
FormSetValueByPathSwallows(h, id, path, newValue) ==
    LET updatedFields == UpdateNestedFieldTyped(h, h[id].fields, Split(path), newValue)
    IN  IF updatedFields.threw THEN Returned(h, Ref(id))
        ELSE Then(updatedFields, RewrapForm(updatedFields.heap, id, updatedFields.ret.v))

\* Form.setValueByPath
FormSetValueByPath(h, id, path, newValue) ==
    LET updatedFields == UpdateNestedFieldTyped(h, h[id].fields, Split(path), newValue)
    IN  IF updatedFields.threw THEN updatedFields
        ELSE Then(updatedFields, RewrapForm(updatedFields.heap, id, updatedFields.ret.v))

\* the new form or group constructed without the receiver's validators
SetOwnFieldNoValidators(h, id, fieldName, newValue) ==
    LET currentField == GetProperty(h, h[id].fields, fieldName)
    IN  IF IsFormField(h, currentField)
        THEN LET f == FieldSetNewValue(h, currentField.v, newValue)
                 o == SpreadAlloc(f.heap, h[id].fields, fieldName, f.ret.v)
             IN  Then(f, Returned(Alloc(o.heap, [h[id] EXCEPT !.fields = o.ret.v,
                                                              !.validators = <<>>]),
                                  Ref(NewId(o.heap))))
        ELSE IF IsFormFieldGroup(h, currentField)
        THEN Threw(h, "Cannot directly set value on FormFieldGroup. Use setValueByPath instead.")
        ELSE Threw(h, "Unsupported field type")

\* Form.setFieldValue and FormFieldGroup.setNewValue: the same body, the
\* result wrapped as the receiver is
SetOwnField(h, id, fieldName, newValue) ==
    LET currentField == GetProperty(h, h[id].fields, fieldName)
    IN  IF IsFormField(h, currentField)
        THEN LET f == FieldSetNewValue(h, currentField.v, newValue)
                 o == SpreadAlloc(f.heap, h[id].fields, fieldName, f.ret.v)
             IN  IF h[id].kind = "form" THEN Then(f, RewrapForm(o.heap, id, o.ret.v))
                 ELSE Then(f, RewrapGroup(o.heap, id, o.ret.v))
        ELSE IF IsFormFieldGroup(h, currentField)
        THEN Threw(h, "Cannot directly set value on FormFieldGroup. Use setValueByPath instead.")
        ELSE Threw(h, "Unsupported field type")

(***************************************************************************)
(* Reads                                                                   *)
(***************************************************************************)
\* obj[head] for whatever obj the walk has reached
Lookup(h, obj, head) ==
    IF obj.t = "object" THEN GetProperty(h, obj.v, head)
    ELSE IF head \in ProtoKeys THEN Function
    ELSE Undefined

RECURSIVE GetNestedValue(_, _, _)
GetNestedValue(h, obj, path) ==
    IF Len(path) = 0 THEN Returned(h, obj)
    ELSE IF obj.t = "undefined"
    THEN Threw(h, "TypeError: Cannot read properties of undefined")
    ELSE LET head == Head(path)
             tail == Tail(path)
             current == Lookup(h, obj, head)
         IN  IF IsFormField(h, current)
             THEN IF Len(tail) = 0 THEN Returned(h, h[current.v].value)
                  ELSE Threw(h, "Cannot traverse deeper into FormField")
             ELSE IF IsFormFieldGroup(h, current)
             THEN GetNestedValue(h, Ref(h[current.v].fields), tail)
             ELSE GetNestedValue(h, current, tail)

\* a walk that meets a leaf before the last segment gives undefined instead
\* of throwing
FormGetValueByPathThroughLeaf(h, id, path) ==
    LET r == GetNestedValue(h, Ref(h[id].fields), Split(path))
    IN  IF r.threw /\ r.err = "Cannot traverse deeper into FormField"
        THEN Returned(h, Undefined)
        ELSE r

\* a walk that ends at a group gives the FormFieldGroup, not its fields
FormGetValueByPathGroupItself(h, id, path) ==
    LET r == GetNestedValue(h, Ref(h[id].fields), Split(path))
        up == {g \in 1..Len(h) : h[g].kind = "group" /\ Ref(h[g].fields) = r.ret}
    IN  IF ~r.threw /\ up # {} THEN Returned(h, Ref(CHOOSE g \in up : TRUE))
        ELSE r

\* Form.getValueByPath
FormGetValueByPath(h, id, path) == GetNestedValue(h, Ref(h[id].fields), Split(path))

(***************************************************************************)
(* The path engine of FormBase                                             *)
(***************************************************************************)
\* head in obj, for whatever obj the walk has reached
FormBaseIn(h, obj, head) ==
    IF obj.t = "object" THEN HasProperty(h, obj.v, head) ELSE head \in ProtoKeys

RECURSIVE FormBaseGetNestedValue(_, _, _)
FormBaseGetNestedValue(h, obj, path) ==
    IF Len(path) = 0 THEN Threw(h, "Invalid path: empty path")
    ELSE LET head == Head(path)
             tail == Tail(path)
         IN  IF ~FormBaseIn(h, obj, head) THEN Threw(h, "Invalid path: key not found")
             ELSE LET current == Lookup(h, obj, head)
                  IN  IF IsFormField(h, current)
                      THEN IF Len(tail) = 0 THEN Returned(h, h[current.v].value)
                           ELSE Threw(h, "Cannot traverse deeper into FormField")
                      ELSE IF IsFormFieldGroup(h, current)
                      THEN FormBaseGetNestedValue(h, Ref(h[current.v].fields), tail)
                      ELSE FormBaseGetNestedValue(h, current, tail)

\* FormBase.getValueByPath
FormBaseGetValueByPath(h, id, path) ==
    FormBaseGetNestedValue(h, Ref(h[id].fields), Split(path))

\* createInstance of FormFieldGroup and of Form
FormBaseCreateInstance(h, id, fields) ==
    IF h[id].kind = "form" THEN RewrapForm(h, id, fields) ELSE RewrapGroup(h, id, fields)

RECURSIVE FormBaseUpdateNestedField(_, _, _, _)
RECURSIVE FormBaseInternalSetValueByPath(_, _, _, _)
FormBaseUpdateNestedField(h, obj, path, newValue) ==
    IF Len(path) = 0 THEN Threw(h, "Invalid path: cannot replace entire object")
    ELSE LET head == Head(path)
             tail == Tail(path)
         IN  IF ~HasProperty(h, obj, head) THEN Threw(h, "Invalid path: key not found")
             ELSE LET current == GetProperty(h, obj, head)
                  IN  IF IsFormField(h, current)
                      THEN IF Len(tail) = 0
                           THEN LET f == Returned(Alloc(h, FormFieldObj(newValue,
                                                            h[current.v].validators)),
                                                  Ref(NewId(h)))
                                IN  SpreadAlloc(f.heap, obj, head, f.ret.v)
                           ELSE Threw(h, "Cannot traverse deeper into FormField")
                      ELSE IF IsFormFieldGroup(h, current)
                      THEN LET g == FormBaseInternalSetValueByPath(h, current.v,
                                                                   Join(tail), newValue)
                           IN  IF g.threw THEN Threw(h, g.err)
                               ELSE SpreadAlloc(g.heap, obj, head, g.ret.v)
                      ELSE Threw(h, "Unsupported field type at path")

\* FormBase.internalSetValueByPath
FormBaseInternalSetValueByPath(h, id, path, newValue) ==
    LET updatedFields == FormBaseUpdateNestedField(h, h[id].fields, Split(path), newValue)
    IN  IF updatedFields.threw THEN updatedFields
        ELSE FormBaseCreateInstance(updatedFields.heap, id, updatedFields.ret.v)

\* Form.setValueByPath of the FormBase classes
FormBaseSetValueByPath(h, id, path, newValue) ==
    LET updatedForm == FormBaseInternalSetValueByPath(h, id, path, newValue)
    IN  IF updatedForm.threw THEN updatedForm
        ELSE RewrapForm(updatedForm.heap, id, updatedForm.heap[updatedForm.ret.v].fields)

(***************************************************************************)
(* Construction                                                            *)
(***************************************************************************)
\* the validator lists a tree is constructed with: leaf n, leaf s, leaf z,
\* group g, group c, form
ValidatorConfigs ==
    { [n |-> <<"notEmpty", "isValidAge">>, s |-> <<"minLength">>, z |-> <<"notEmpty">>,
       g |-> <<"addressValidator", "accept">>, c |-> <<"addressValidator">>,
       f |-> <<"userEligibilityValidator", "accept">>],
      [n |-> <<"isValidAge">>, s |-> <<"notEmpty", "minLength">>, z |-> <<>>,
       g |-> <<"accept", "addressValidator">>, c |-> <<"checkSubmissionRate">>,
       f |-> <<>>] }

\* the literals a tree is constructed from: the order in which the root and
\* the outer group declare their leaf and their group, and the keys they use
Literals ==
    { [root  |-> [decl |-> << <<"n">>, <<"g">> >>, leaf |-> <<"n">>, group |-> <<"g">>],
       group |-> [decl |-> << <<"s">>, <<"c">> >>, leaf |-> <<"s">>, group |-> <<"c">>]],
      [root  |-> [decl |-> << <<"g">>, <<"n">> >>, leaf |-> <<"n">>, group |-> <<"g">>],
       group |-> [decl |-> << <<"s">>, <<"0">> >>, leaf |-> <<"s">>, group |-> <<"0">>]],
      [root  |-> [decl |-> << <<"n">>, <<"1">> >>, leaf |-> <<"n">>, group |-> <<"1">>],
       group |-> [decl |-> << <<"c">>, <<"s">> >>, leaf |-> <<"s">>, group |-> <<"c">>]] }

\* new Form({ n: new FormField(v1, ..),
\*            g: new FormFieldGroup({ s: new FormField(v2, ..),
\*                                    c: new FormFieldGroup({ z: new FormField(v3, ..) }, ..) }, ..) }, ..)
\* objects are numbered in the order the constructors return
BuildForm(root, group, v1, v2, v3, cfg) ==
    LET h1 == Alloc(<<>>, FormFieldObj(v1, cfg.n))
        h2 == Alloc(h1, FormFieldObj(v2, cfg.s))
        h3 == Alloc(h2, FormFieldObj(v3, cfg.z))
        h4 == Alloc(h3, RecordObj(<< <<"z">> >>, [k \in {<<"z">>} |-> 3]))
        h5 == Alloc(h4, FormFieldGroupObj(4, cfg.c))
        h6 == Alloc(h5, RecordObj(group.decl,
                  [k \in {group.leaf, group.group} |-> IF k = group.leaf THEN 2 ELSE 5]))
        h7 == Alloc(h6, FormFieldGroupObj(6, cfg.g))
        h8 == Alloc(h7, RecordObj(root.decl,
                  [k \in {root.leaf, root.group} |-> IF k = root.leaf THEN 1 ELSE 7]))
    IN  Alloc(h8, FormObj(8, cfg.f))

NoOp ==
    [op |-> "new Form", target |-> 0, path |-> <<>>, value |-> Undefined,
     threw |-> FALSE, err |-> "", ret |-> Undefined, res |-> Right(Undefined),
     before |-> 0]

InitWith(literals, V1, V2, V3, cfgs) ==
    /\ \E lit \in literals, v1 \in V1, v2 \in V2, v3 \in V3, cfg \in cfgs :
          heap = BuildForm(lit.root, lit.group, v1, v2, v3, cfg)
    /\ held = {Len(heap)}
    /\ last = [NoOp EXCEPT !.ret = Ref(Len(heap))]
    /\ calls = <<>>

Init == InitWith(Literals, {Num(2)}, {Num(0)}, {Num(2)}, ValidatorConfigs)

(***************************************************************************)
(* Inputs the callers choose                                               *)
(***************************************************************************)
Objects(kind) == {id \in 1..Len(heap) : heap[id].kind = kind}

RECURSIVE NodePaths(_, _)
\* the key sequences that lead from a fields object to a leaf or a group
NodePaths(h, obj) ==
    UNION { {<<k>>} \cup
            (IF h[h[obj].child[k]].kind = "group"
             THEN {<<k>> \o p : p \in NodePaths(h, h[h[obj].child[k]].fields)}
             ELSE {}) : k \in DOMAIN h[obj].child }

LeafPaths(h, obj) ==
    {p \in NodePaths(h, obj) :
        LET r == GetNestedValue(h, Ref(obj), p) IN ~r.threw /\ r.ret.t # "object"}

\* path strings that are not paths of the tree: empty, an absent key, a
\* traversal through the leaf n
OtherPaths == { <<>>, <<"q">>, <<"n", ".", "z">> }

PathInputs(h, id) == {Join(p) : p \in NodePaths(h, h[id].fields)} \cup OtherPaths

\* the values a caller passes to a write at a path: a number, or what it has
\* just read at that path
ValueInputs(h, id, path) ==
    WriteValues \cup
    (LET r == FormGetValueByPath(h, id, path) IN IF r.threw THEN {} ELSE {r.ret})

KeyInputs(h, id) == DOMAIN h[h[id].fields].child \cup { <<"q">> }

(***************************************************************************)
(* Operations                                                              *)
(***************************************************************************)
Record(op, target, path, value, r, res) ==
    [op |-> op, target |-> target, path |-> path, value |-> value,
     threw |-> r.threw, err |-> r.err, ret |-> r.ret, res |-> res,
     before |-> Len(heap)]

\* a write: the heap gains the objects the call allocated, the caller holds
\* what it returned, and the validators the call invoked are on record
Write(op, target, path, value, r) ==
    /\ Cardinality(held) < MaxHeld
    /\ heap' = r.heap
    /\ held' = IF r.threw THEN held ELSE held \cup {r.ret.v}
    /\ last' = Record(op, target, path, value, r, Right(Undefined))
    /\ calls' = r.log

SetValueByPath ==
    \E f \in held \cap Objects("form") :
      \E path \in PathInputs(heap, f) :
        \E v \in ValueInputs(heap, f, path) :
          Write("setValueByPath", f, path, v, FormSetValueByPath(heap, f, path, v))

SetFieldValue ==
    \E f \in held \cap Objects("form") :
      \E k \in KeyInputs(heap, f), v \in WriteValues :
          Write("setFieldValue", f, k, v, SetOwnField(heap, f, k, v))

GroupSetNewValue ==
    \E g \in Objects("group") :
      \E k \in KeyInputs(heap, g), v \in WriteValues :
          Write("group.setNewValue", g, k, v, SetOwnField(heap, g, k, v))

FieldSetNewValueOp ==
    \E l \in Objects("field"), v \in WriteValues :
        Write("field.setNewValue", l, <<>>, v, FieldSetNewValue(heap, l, v))

GetValueByPath ==
    \E f \in held \cap Objects("form") :
      \E path \in PathInputs(heap, f) :
        /\ last' = Record("getValueByPath", f, path, Undefined,
                          FormGetValueByPath(heap, f, path), Right(Undefined))
        /\ calls' = <<>>
        /\ UNCHANGED <<heap, held>>

Validated(op, target, r) ==
    /\ last' = Record(op, target, <<>>, Undefined, Returned(heap, Undefined), r.res)
    /\ calls' = r.log
    /\ UNCHANGED <<heap, held>>

Validate ==
    \E l \in Objects("field") : Validated("validate", l, FieldValidate(heap, l))

ValidateGroupOp ==
    \E g \in Objects("group") : Validated("validateGroup", g, ValidateGroup(heap, g))

ValidateFormOp ==
    \E f \in Objects("form") : Validated("validateForm", f, ValidateForm(heap, f))

Next ==
    \/ SetValueByPath
    \/ SetFieldValue
    \/ GroupSetNewValue
    \/ FieldSetNewValueOp
    \/ GetValueByPath
    \/ Validate
    \/ ValidateGroupOp
    \/ ValidateFormOp

Spec == Init /\ [][Next]_vars

(***************************************************************************)
(* Validation of constructed trees                                         *)
(***************************************************************************)
\* createBasicForm: a form whose form-level validator returns an object
\* literal of its own
BasicFormConfig ==
    [n |-> <<"notEmpty">>, s |-> <<>>, z |-> <<"minLength">>,
     g |-> <<"accept", "basicFormValidator">>, c |-> <<>>,
     f |-> <<"basicFormValidator">>]

\* arbitraryFormField: leaves whose validators return values of their own
ArbitraryFieldConfig ==
    [n |-> <<"arbitraryRight", "isValidAge">>, s |-> <<"arbitraryRight", "arbitraryRight">>,
     z |-> <<"arbitraryRight">>, g |-> <<>>, c |-> <<"accept">>, f |-> <<>>]

InitValidation ==
    InitWith(Literals, WriteValues, WriteValues, WriteValues,
             ValidatorConfigs \cup {BasicFormConfig, ArbitraryFieldConfig})

NextValidation ==
    \/ Validate
    \/ ValidateGroupOp
    \/ ValidateFormOp

SpecValidation == InitValidation /\ [][NextValidation]_vars

(***************************************************************************)
(* The password form                                                       *)
(***************************************************************************)
Str(c) == [t |-> "string", v |-> c]

PasswordValues == {Str("a"), Str("b")}

Security == <<"s", "e", "c", "u", "r", "i", "t", "y">>

Password == <<"p", "a", "s", "s", "w", "o", "r", "d">>

ConfirmPassword ==
    <<"c", "o", "n", "f", "i", "r", "m", "P", "a", "s", "s", "w", "o", "r", "d">>

\* new Form({ security: new FormFieldGroup({ password: new FormField(p),
\*     confirmPassword: new FormField(c) }, passwordsMatch) })
BuildPasswordForm(p, c) ==
    LET h1 == Alloc(<<>>, FormFieldObj(p, <<>>))
        h2 == Alloc(h1, FormFieldObj(c, <<>>))
        h3 == Alloc(h2, RecordObj(<<Password, ConfirmPassword>>,
                  [k \in {Password, ConfirmPassword} |-> IF k = Password THEN 1 ELSE 2]))
        h4 == Alloc(h3, FormFieldGroupObj(3, <<"passwordsMatch">>))
        h5 == Alloc(h4, RecordObj(<<Security>>, [k \in {Security} |-> 4]))
    IN  Alloc(h5, FormObj(5, <<>>))

InitPasswords ==
    /\ \E p \in PasswordValues, c \in PasswordValues : heap = BuildPasswordForm(p, c)
    /\ held = {Len(heap)}
    /\ last = [NoOp EXCEPT !.ret = Ref(Len(heap))]
    /\ calls = <<>>

SetPasswordByPath ==
    \E f \in held \cap Objects("form") :
      \E path \in PathInputs(heap, f), v \in PasswordValues :
          Write("setValueByPath", f, path, v, FormSetValueByPath(heap, f, path, v))

NextPasswords ==
    \/ SetPasswordByPath
    \/ GetValueByPath
    \/ ValidateGroupOp
    \/ ValidateFormOp

SpecPasswords == InitPasswords /\ [][NextPasswords]_vars

(***************************************************************************)
(* The form of the README's Basic Usage                                    *)
(***************************************************************************)
\* an age in the unit of isValidAge, nine years: 18 is the threshold 2
Age(years) == Num(years \div 9)

NameKey == <<"n", "a", "m", "e">>

AgeKey == <<"a", "g", "e">>

AddressKey == <<"a", "d", "d", "r", "e", "s", "s">>

StreetKey == <<"s", "t", "r", "e", "e", "t">>

CityKey == <<"c", "i", "t", "y">>

\* new Form({ name: new FormField(name, notEmpty),
\*            age: new FormField(age, isValidAge),
\*            address: new FormFieldGroup({ street: new FormField(street, notEmpty),
\*                                          city: new FormField(city, notEmpty) },
\*                                        addressValidator) },
\*          userEligibilityValidator)
BuildUserForm(name, age, street, city) ==
    LET h1 == Alloc(<<>>, FormFieldObj(name, <<"notEmpty">>))
        h2 == Alloc(h1, FormFieldObj(age, <<"isValidAge">>))
        h3 == Alloc(h2, FormFieldObj(street, <<"notEmpty">>))
        h4 == Alloc(h3, FormFieldObj(city, <<"notEmpty">>))
        h5 == Alloc(h4, RecordObj(<<StreetKey, CityKey>>,
                  [k \in {StreetKey, CityKey} |-> IF k = StreetKey THEN 3 ELSE 4]))
        h6 == Alloc(h5, FormFieldGroupObj(5, <<"addressValidator">>))
        h7 == Alloc(h6, RecordObj(<<NameKey, AgeKey, AddressKey>>,
                  [k \in {NameKey, AgeKey, AddressKey} |->
                      IF k = NameKey THEN 1 ELSE IF k = AgeKey THEN 2 ELSE 6]))
    IN  Alloc(h7, FormObj(7, <<"userEligibilityValidator">>))

InitUserForm ==
    /\ heap = BuildUserForm(Str("John"), Age(25), Str("123 Main St"), Str("New York"))
    /\ held = {Len(heap)}
    /\ last = [NoOp EXCEPT !.ret = Ref(Len(heap))]
    /\ calls = <<>>

\* the values the README's caller writes, and those the form starts with
UserFormValues == {Str(""), Str("John"), Age(16), Age(25)}

\* newValue: PathValue<T, P> and FormFieldValueType<T[K]>: the values that
\* have the type of the leaf at the path
TypedValueInputs(h, id, path) ==
    LET r == FormGetValueByPath(h, id, path)
    IN  IF r.threw THEN {} ELSE {v \in UserFormValues : v.t = r.ret.t}

\* a write in a chain of calls: a.setFieldValue(..).setValueByPath(..)
ChainWrite(op, target, path, value, r) ==
    /\ Cardinality(held) <= MaxHeld
    /\ heap' = r.heap
    /\ held' = IF r.threw THEN held ELSE held \cup {r.ret.v}
    /\ last' = Record(op, target, path, value, r, Right(Undefined))
    /\ calls' = r.log

TypedSetValueByPath ==
    \E f \in held \cap Objects("form") :
      \E path \in {Join(p) : p \in LeafPaths(heap, heap[f].fields)} :
        \E v \in TypedValueInputs(heap, f, path) :
          ChainWrite("setValueByPath", f, path, v, FormSetValueByPath(heap, f, path, v))

TypedSetFieldValue ==
    \E f \in held \cap Objects("form") :
      \E k \in DOMAIN heap[heap[f].fields].child :
        \E v \in TypedValueInputs(heap, f, k) :
          ChainWrite("setFieldValue", f, k, v, SetOwnField(heap, f, k, v))

NextUserForm ==
    \/ TypedSetValueByPath
    \/ TypedSetFieldValue
    \/ ValidateFormOp

SpecUserForm == InitUserForm /\ [][NextUserForm]_vars

(***************************************************************************)
(* Several callers, several writes                                         *)
(***************************************************************************)
\* the tree of Literals whose inner group has an array index for its key,
\* with the validator lists that give the form a validator
InitChain ==
    InitWith({lit \in Literals : lit.group.group = <<"0">>},
             {Num(2)}, {Num(0)}, {Num(2)},
             {cfg \in ValidatorConfigs : cfg.f # <<>>})

\* the path strings of the leaves of a form, and an absent key
ChainPathInputs(h, id) ==
    {Join(p) : p \in LeafPaths(h, h[id].fields)} \cup { <<"q">> }

ChainSetValueByPath ==
    \E f \in held \cap Objects("form") :
      \E path \in ChainPathInputs(heap, f), v \in WriteValues :
          ChainWrite("setValueByPath", f, path, v, FormSetValueByPath(heap, f, path, v))

ChainGetValueByPath ==
    \E f \in held \cap Objects("form") :
      \E path \in ChainPathInputs(heap, f) :
        /\ last' = Record("getValueByPath", f, path, Undefined,
                          FormGetValueByPath(heap, f, path), Right(Undefined))
        /\ calls' = <<>>
        /\ UNCHANGED <<heap, held>>

ChainValidateForm ==
    \E f \in held \cap Objects("form") :
        Validated("validateForm", f, ValidateForm(heap, f))

NextChain ==
    \/ ChainSetValueByPath
    \/ ChainGetValueByPath
    \/ ChainValidateForm

SpecChain == InitChain /\ [][NextChain]_vars

(***************************************************************************)
(* Callers that keep what getFields() / getForm() returned                 *)
(***************************************************************************)
\* FormFieldGroup.getFields and Form.getForm: return this.fields, the object
\* the node itself reads its children from
GetFields(h, id) == Returned(h, Ref(h[id].fields))

GetFieldsOp ==
    \E n \in Objects("group") \cup Objects("form") :
        /\ last' = Record(IF heap[n].kind = "form" THEN "getForm" ELSE "getFields",
                          n, <<>>, Undefined, GetFields(heap, n), Right(Undefined))
        /\ held' = held \cup {GetFields(heap, n).ret.v}
        /\ calls' = <<>>
        /\ UNCHANGED heap

\* fields[key] = field, by a caller on the object it was handed: a plain
\* object, neither frozen nor copied, whose properties of type FormField
\* accept any FormField of that type
AssignField ==
    \E r \in held \cap Objects("record") :
      \E k \in DOMAIN heap[r].child, c \in Objects("field") :
        /\ heap[heap[r].child[k]].kind = "field"
        /\ heap' = [heap EXCEPT ![r].child[k] = c]
        /\ last' = Record("fields[key] = field", r, k, Ref(c),
                          Returned(heap, Undefined), Right(Undefined))
        /\ calls' = <<>>
        /\ UNCHANGED held

NextFieldsView ==
    \/ GetFieldsOp
    \/ AssignField

SpecFieldsView == Init /\ [][NextFieldsView]_vars

(***************************************************************************)
(* Top-level keys of every shape                                           *)
(***************************************************************************)
\* object literals whose top-level leaf has a plain key, the empty key, a
\* key with a dot that is also the path of a nested leaf, and a key with a
\* dot that is the path of nothing
KeyLiterals ==
    { [root  |-> [decl |-> << k, <<"g">> >>, leaf |-> k, group |-> <<"g">>],
       group |-> [decl |-> << <<"s">>, <<"c">> >>, leaf |-> <<"s">>, group |-> <<"c">>]] :
      k \in { <<"n">>, <<>>, <<"g", ".", "s">>, <<"n", ".", "x">> } }

InitKeys == InitWith(KeyLiterals, {Num(2)}, {Num(0)}, {Num(2)}, ValidatorConfigs)

\* the keys of the form's fields, an absent key, a key of Object.prototype
TopLevelKeyInputs(h, id) == DOMAIN h[h[id].fields].child \cup { <<"q">> } \cup ProtoKeys

SetFieldValueOfKey ==
    \E f \in held \cap Objects("form") :
      \E k \in TopLevelKeyInputs(heap, f), v \in WriteValues :
          Write("setFieldValue", f, k, v, SetOwnField(heap, f, k, v))

SetValueByPathOfKey ==
    \E f \in held \cap Objects("form") :
      \E k \in TopLevelKeyInputs(heap, f), v \in WriteValues :
          Write("setValueByPath", f, k, v, FormSetValueByPath(heap, f, k, v))

NextKeys ==
    \/ SetFieldValueOfKey
    \/ SetValueByPathOfKey

SpecKeys == InitKeys /\ [][NextKeys]_vars

(***************************************************************************)
(* Calls with path strings of every shape                                  *)
(***************************************************************************)
\* the path strings of PathInputs and, for every node path p, p.q; for every
\* leaf path p, p.z.q; a key of Object.prototype; an absent key followed by
\* a key of the tree; a lone dot
WidePathInputs(h, id) ==
    PathInputs(h, id)
    \cup {Join(p) \o <<".", "q">> : p \in NodePaths(h, h[id].fields)}
    \cup {Join(p) \o <<".", "z", ".", "q">> : p \in LeafPaths(h, h[id].fields)}
    \cup ProtoKeys
    \cup { <<"q", ".", "n">>, <<".">> }

SetValueByWidePath ==
    \E f \in held \cap Objects("form") :
      \E path \in WidePathInputs(heap, f), v \in WriteValues :
          Write("setValueByPath", f, path, v, FormSetValueByPath(heap, f, path, v))

GetValueByWidePath ==
    \E f \in held \cap Objects("form") :
      \E path \in WidePathInputs(heap, f) :
        /\ last' = Record("getValueByPath", f, path, Undefined,
                          FormGetValueByPath(heap, f, path), Right(Undefined))
        /\ calls' = <<>>
        /\ UNCHANGED <<heap, held>>

NextPaths ==
    \/ SetValueByWidePath
    \/ GetValueByWidePath

SpecPaths == Init /\ [][NextPaths]_vars

(***************************************************************************)
(* Vocabulary of the properties                                            *)
(***************************************************************************)
RECURSIVE LeavesBelow(_, _)
\* the FormField objects below a group or form, at any depth
LeavesBelow(h, id) ==
    UNION { IF h[c].kind = "field" THEN {c} ELSE LeavesBelow(h, c) :
            c \in {h[h[id].fields].child[k] : k \in DOMAIN h[h[id].fields].child} }

RECURSIVE GroupsBelow(_, _)
\* the FormFieldGroup objects below a group or form, at any depth
GroupsBelow(h, id) ==
    UNION { IF h[c].kind = "field" THEN {} ELSE {c} \cup GroupsBelow(h, c) :
            c \in {h[h[id].fields].child[k] : k \in DOMAIN h[h[id].fields].child} }

\* the outcome of validating one child on its own
ChildValidation(h, c) ==
    IF h[c].kind = "field" THEN FieldValidate(h, c).res ELSE ValidateGroup(h, c).res

\* the keys of the children of a node that fail on their own
FailingKeys(h, id) ==
    {k \in DOMAIN h[h[id].fields].child :
        ~ChildValidation(h, h[h[id].fields].child[k]).right}

\* the failing child that the literal declares first
FirstDeclaredFailing(h, id) ==
    LET decl == h[h[id].fields].declared
        i == CHOOSE i \in DOMAIN decl :
                 /\ decl[i] \in FailingKeys(h, id)
                 /\ \A j \in 1..(i - 1) : decl[j] \notin FailingKeys(h, id)
    IN  h[h[id].fields].child[decl[i]]

TierRank(tier) == CASE tier = "field" -> 1 [] tier = "group" -> 2 [] OTHER -> 3

IsGroupValidation == last.op \in {"validateGroup", "validateForm"}

(***************************************************************************)
(* C1  Tier gating: when a leaf below a group or form fails its            *)
(* validation, validateGroup()/validateForm() of that node invokes none of *)
(* the node's own group-level or form-level validators.                    *)
(***************************************************************************)
C1_TierGating ==
    (/\ IsGroupValidation
     /\ \E l \in LeavesBelow(heap, last.target) : ~FieldValidate(heap, l).res.right)
    => \A i \in DOMAIN calls : calls[i].owner # last.target

(***************************************************************************)
(* C2  First-failure ordering: when more than one child of a group or form *)
(* fails, validateGroup()/validateForm() returns the error of the failing  *)
(* child that was declared first, whatever the children's keys are.        *)
(***************************************************************************)
C2_FirstFailureOrdering ==
    (/\ IsGroupValidation
     /\ Cardinality(FailingKeys(heap, last.target)) > 1)
    => /\ ~last.res.right
       /\ last.res.msg =
              ChildValidation(heap, FirstDeclaredFailing(heap, last.target)).msg

(***************************************************************************)
(* C3  Global tier order of validateForm(): every leaf validator of the    *)
(* form runs before any group validator, every group validator before any  *)
(* form validator; no group validator is invoked unless every leaf of the  *)
(* form validates, no form validator unless every group validates.         *)
(***************************************************************************)
C3_GlobalTierOrder ==
    last.op = "validateForm" =>
       /\ \A i, j \in DOMAIN calls :
              i < j => TierRank(calls[i].tier) <= TierRank(calls[j].tier)
       /\ (\E i \in DOMAIN calls : calls[i].tier = "group")
              => \A l \in LeavesBelow(heap, last.target) : FieldValidate(heap, l).res.right
       /\ (\E i \in DOMAIN calls : calls[i].tier = "form")
              => \A g \in GroupsBelow(heap, last.target) : ValidateGroup(heap, g).res.right

(***************************************************************************)
(* C4  FormField.validate() invokes the leaf's validators in declared      *)
(* order; once one returns a failure no later validator of the leaf is     *)
(* invoked and that failure is the result.                                 *)
(***************************************************************************)
C4_FieldValidateStopsAtFirstFailure ==
    last.op = "validate" =>
       LET vs == heap[last.target].validators
           Outcome(i) == ApplyFieldValidator(vs[i], calls[i].arg)
       IN  /\ Len(calls) <= Len(vs)
           /\ \A i \in DOMAIN calls :
                 /\ calls[i].validator = vs[i]
                 /\ calls[i].owner = last.target
                 /\ ~Outcome(i).right => (i = Len(calls) /\ last.res = Outcome(i))
           /\ (\A i \in DOMAIN calls : Outcome(i).right) => Len(calls) = Len(vs)

\* a leaf with two validators whose first validator failed
C4_Witness ==
    /\ last.op = "validate"
    /\ Len(heap[last.target].validators) = 2
    /\ Len(calls) = 1
    /\ ~last.res.right

(***************************************************************************)
(* Vocabulary of the path properties                                       *)
(***************************************************************************)
RECURSIVE NodeAt(_, _, _)
\* the FormField or FormFieldGroup object that the key sequence segs leads
\* to from a fields object, 0 when it leads nowhere
NodeAt(h, obj, segs) ==
    IF Head(segs) \notin DOMAIN h[obj].child THEN 0
    ELSE LET c == h[obj].child[Head(segs)]
         IN  IF Len(segs) = 1 THEN c
             ELSE IF h[c].kind = "group" THEN NodeAt(h, h[c].fields, Tail(segs))
             ELSE 0

RECURSIVE TreeValue(_, _)
\* a tree by value: kinds, keys in enumeration order, leaf values, validators
TreeValue(h, id) ==
    IF h[id].kind = "field"
    THEN [kind |-> "field", value |-> h[id].value, validators |-> h[id].validators,
          keys |-> <<>>, children |-> NoChild]
    ELSE [kind |-> h[id].kind, value |-> Undefined, validators |-> h[id].validators,
          keys |-> h[h[id].fields].keys,
          children |-> [k \in DOMAIN h[h[id].fields].child |->
                           TreeValue(h, h[h[id].fields].child[k])]]

IsPrefix(q, p) == Len(q) <= Len(p) /\ SubSeq(p, 1, Len(q)) = q

\* what a caller observes of a read: whether it threw, and the value
Observed(r) == [threw |-> r.threw, err |-> r.err, ret |-> r.ret]

SetSucceeded == last.op = "setValueByPath" /\ ~last.threw

\* the last call was setValueByPath(p, v) with p the path of a leaf
SetAtLeaf ==
    /\ last.op = "setValueByPath"
    /\ Split(last.path) \in LeafPaths(heap, heap[last.target].fields)

\* the value passed to the last setValueByPath is what getValueByPath reads
\* at the same path of the same form
WroteBackRead ==
    /\ last.op = "setValueByPath"
    /\ Observed(FormGetValueByPath(heap, last.target, last.path)) =
           [threw |-> FALSE, err |-> "", ret |-> last.value]

(***************************************************************************)
(* C5  Write-then-read: for a path p that names a leaf at any depth and    *)
(* any value v, setValueByPath(p, v) returns a form on which               *)
(* getValueByPath(p) returns v.                                            *)
(***************************************************************************)
C5_WriteThenRead ==
    SetAtLeaf =>
       /\ ~last.threw
       /\ Observed(FormGetValueByPath(heap, last.ret.v, last.path)) =
              [threw |-> FALSE, err |-> "", ret |-> last.value]

\* a leaf three levels down was given a value it did not have
C5_Witness ==
    /\ SetAtLeaf
    /\ Len(Split(last.path)) = 3
    /\ FormGetValueByPath(heap, last.target, last.path).ret # last.value
    /\ ~last.threw

(***************************************************************************)
(* C6  Round-trip, as claimed: for every path p whose final segment names  *)
(* a leaf or a group, setValueByPath(p, getValueByPath(p)) succeeds and    *)
(* yields a tree equal by value to the original.                           *)
(***************************************************************************)
C6_RoundTripAnyNode ==
    (/\ WroteBackRead
     /\ Split(last.path) \in NodePaths(heap, heap[last.target].fields))
    => /\ ~last.threw
       /\ TreeValue(heap, last.ret.v) = TreeValue(heap, last.target)

(***************************************************************************)
(* C6  Round-trip, amended: for every path p whose final segment names a   *)
(* leaf, setValueByPath(p, getValueByPath(p)) succeeds and yields a tree   *)
(* equal by value to the original.                                         *)
(***************************************************************************)
C6_RoundTripLeaf ==
    (WroteBackRead /\ SetAtLeaf)
    => /\ ~last.threw
       /\ TreeValue(heap, last.ret.v) = TreeValue(heap, last.target)

\* the value of a nested leaf was read and written back
C6_Witness ==
    /\ WroteBackRead
    /\ SetAtLeaf
    /\ Len(Split(last.path)) >= 2
    /\ ~last.threw
    /\ last.ret.v # last.target

(***************************************************************************)
(* C7  Immutability: a setValueByPath or setFieldValue call leaves what    *)
(* getValueByPath reads on the receiving form unchanged, at every path,    *)
(* the written one included.  (A call that throws allocates nothing: the   *)
(* heap is the same and so is every read.)                                 *)
(***************************************************************************)
C7_Immutability ==
    [][(heap' # heap /\ last'.op \in {"setValueByPath", "setFieldValue"}) =>
          \A q \in PathInputs(heap, last'.target) :
              Observed(FormGetValueByPath(heap', last'.target, q)) =
              Observed(FormGetValueByPath(heap, last'.target, q))]_vars

\* a write returned a form that reads differently from its receiver at the
\* written path
C7_Witness ==
    /\ last.op \in {"setValueByPath", "setFieldValue"}
    /\ ~last.threw
    /\ FormGetValueByPath(heap, last.target, last.path).ret # last.value
    /\ FormGetValueByPath(heap, last.ret.v, last.path).ret = last.value

(***************************************************************************)
(* C8  Structural sharing: in the tree returned by setValueByPath(p, v)    *)
(* every node off the path p is the identical object as in the original,   *)
(* while the root and every ancestor group on p are newly created.         *)
(***************************************************************************)
C8_StructuralSharing ==
    SetSucceeded =>
       LET orig == heap[last.target].fields
           new == heap[last.ret.v].fields
           p == Split(last.path)
       IN  /\ last.ret.v > last.before
           /\ \A i \in 1..(Len(p) - 1) :
                 /\ NodeAt(heap, new, SubSeq(p, 1, i)) > last.before
                 /\ heap[NodeAt(heap, new, SubSeq(p, 1, i))].kind = "group"
           /\ \A q \in NodePaths(heap, orig) :
                 ~IsPrefix(q, p) => /\ NodeAt(heap, orig, q) # 0
                                    /\ NodeAt(heap, new, q) = NodeAt(heap, orig, q)

\* a leaf three levels down was written: two ancestor groups were rebuilt
\* and the siblings at both levels kept
C8_Witness ==
    /\ SetSucceeded
    /\ Len(Split(last.path)) = 3
    /\ Cardinality({q \in NodePaths(heap, heap[last.target].fields) :
                       ~IsPrefix(q, Split(last.path))}) >= 2

(***************************************************************************)
(* C9  Sibling isolation: after setValueByPath(p, v) on a leaf path p,     *)
(* every other leaf path q reads in the returned form what it reads in the *)
(* original.                                                               *)
(***************************************************************************)
C9_SiblingIsolation ==
    (SetAtLeaf /\ ~last.threw) =>
       \A q \in LeafPaths(heap, heap[last.target].fields) \ {Split(last.path)} :
           Observed(FormGetValueByPath(heap, last.ret.v, Join(q))) =
           Observed(FormGetValueByPath(heap, last.target, Join(q)))

\* a leaf was given a new value while a sibling below the same group and a
\* leaf elsewhere kept theirs
C9_Witness ==
    /\ SetAtLeaf
    /\ ~last.threw
    /\ Len(Split(last.path)) = 2
    /\ FormGetValueByPath(heap, last.target, last.path).ret # last.value
    /\ Cardinality(LeafPaths(heap, heap[last.target].fields)) = 3

(***************************************************************************)
(* C10  Validators are preserved by writes: after setValueByPath,          *)
(* setFieldValue or setNewValue calls every leaf, every group and the root *)
(* of the result carries the validator sequence its node was constructed   *)
(* with.                                                                   *)
(***************************************************************************)
\* the trees of a and b have the same nodes and each node the same validators
SameValidators(h, a, b) ==
    /\ h[b].kind = h[a].kind
    /\ h[b].validators = h[a].validators
    /\ NodePaths(h, h[b].fields) = NodePaths(h, h[a].fields)
    /\ \A q \in NodePaths(h, h[a].fields) :
          h[NodeAt(h, h[b].fields, q)].validators =
          h[NodeAt(h, h[a].fields, q)].validators

\* the form the tree was constructed as
ConstructedForm == CHOOSE f \in Objects("form") : \A g \in Objects("form") : f <= g

C10_ValidatorsPreserved ==
    /\ (last.op \in {"setValueByPath", "setFieldValue", "group.setNewValue"} /\ ~last.threw)
          => SameValidators(heap, last.target, last.ret.v)
    /\ last.op = "field.setNewValue"
          => heap[last.ret.v].validators = heap[last.target].validators
    /\ \A f \in held \cap Objects("form") : SameValidators(heap, ConstructedForm, f)

\* a write below two groups in a tree whose leaf, groups and root all have
\* validators
C10_Witness ==
    /\ SetSucceeded
    /\ Len(Split(last.path)) = 3
    /\ heap[last.ret.v].validators # <<>>
    /\ \A q \in NodePaths(heap, heap[last.ret.v].fields) :
          IsPrefix(q, Split(last.path)) =>
              heap[NodeAt(heap, heap[last.ret.v].fields, q)].validators # <<>>

(***************************************************************************)
(* Vocabulary of the invalid-path properties                               *)
(***************************************************************************)
RECURSIVE AbsentAlong(_, _, _)
\* walking segs from a fields object through groups reaches a segment that
\* is not a key of the children mapping at its level
AbsentAlong(h, obj, segs) ==
    /\ Len(segs) > 0
    /\ \/ Head(segs) \notin DOMAIN h[obj].child
       \/ LET c == h[obj].child[Head(segs)]
          IN  h[c].kind = "group" /\ AbsentAlong(h, h[c].fields, Tail(segs))

RECURSIVE ThroughLeaf(_, _, _)
\* walking segs from a fields object through groups reaches a leaf at a
\* segment that is not the last
ThroughLeaf(h, obj, segs) ==
    /\ Len(segs) > 1
    /\ Head(segs) \in DOMAIN h[obj].child
    /\ LET c == h[obj].child[Head(segs)]
       IN  \/ h[c].kind = "field"
           \/ h[c].kind = "group" /\ ThroughLeaf(h, h[c].fields, Tail(segs))

IsGet == last.op = "getValueByPath"

IsSet == last.op = "setValueByPath"

\* the fields object of the form the last call was made on
TargetFields == heap[last.target].fields

(***************************************************************************)
(* C11  getValueByPath throws whenever some segment of the path is absent  *)
(* from the children mapping at its level, for paths of one segment or     *)
(* several; it never returns a value for such a path.                      *)
(***************************************************************************)
C11_AbsentSegmentThrows ==
    (IsGet /\ AbsentAlong(heap, TargetFields, Split(last.path))) => last.threw

(***************************************************************************)
(* C12  setValueByPath with a path that is not valid in the tree (a key    *)
(* absent at any level, a traversal through a leaf, or an empty path)      *)
(* throws; it returns no form, allocates nothing and leaves every object,  *)
(* the receiving form included, as it was.                                 *)
(***************************************************************************)
InvalidSetPath(h, obj, path) ==
    \/ path = <<>>
    \/ AbsentAlong(h, obj, Split(path))
    \/ ThroughLeaf(h, obj, Split(path))

C12_InvalidSetThrows ==
    [][(/\ last'.op = "setValueByPath"
        /\ last' # last
        /\ InvalidSetPath(heap, heap[last'.target].fields, last'.path))
       => /\ last'.threw
          /\ last'.ret = Undefined
          /\ heap' = heap
          /\ held' = held]_vars

\* a write at a key absent from a group two levels down threw
C12_Witness ==
    /\ IsSet
    /\ last.threw
    /\ Len(Split(last.path)) = 3
    /\ AbsentAlong(heap, TargetFields, Split(last.path))
    /\ Len(heap) = last.before

(***************************************************************************)
(* C13  An empty path string passed to getValueByPath or setValueByPath    *)
(* fails with the empty-path condition.                                    *)
(***************************************************************************)
C13_EmptyPathFails ==
    ((IsGet \/ IsSet) /\ last.path = <<>>)
    => /\ last.threw
       /\ last.err = "Invalid path: cannot replace entire object"

(***************************************************************************)
(* C14  getValueByPath and setValueByPath both fail with the "cannot       *)
(* traverse into a leaf" condition whenever a segment of the path that is  *)
(* not the last names a leaf, whatever the segments after it are.          *)
(***************************************************************************)
C14_TraverseIntoLeafFails ==
    ((IsGet \/ IsSet) /\ ThroughLeaf(heap, TargetFields, Split(last.path)))
    => /\ last.threw
       /\ last.err = "Cannot traverse deeper into FormField"

\* a read through a leaf two levels down, with two segments after the leaf
C14_Witness ==
    /\ IsGet
    /\ Len(Split(last.path)) >= 4
    /\ ThroughLeaf(heap, TargetFields, Split(last.path))
    /\ ~ThroughLeaf(heap, TargetFields, SubSeq(Split(last.path), 1, 2))
    /\ last.threw

C16_GetReturnsValidatableGroup ==
    (/\ IsGet
     /\ Split(last.path) \in NodePaths(heap, TargetFields)
     /\ heap[NodeAt(heap, TargetFields, Split(last.path))].kind = "group")
    => /\ ~last.threw
       /\ HasValidateGroup(heap, last.ret)

(***************************************************************************)
(* C17  Failure propagation, as claimed: when a leaf at any depth fails    *)
(* its validation, validateGroup()/validateForm() of every enclosing group *)
(* and of the form returns a failure carrying exactly that leaf            *)
(* validator's error, not wrapped or altered.                              *)
(***************************************************************************)
C17_LeafErrorCarried ==
    IsGroupValidation =>
       \A l \in LeavesBelow(heap, last.target) :
           ~FieldValidate(heap, l).res.right => last.res = FieldValidate(heap, l).res

\* the walk of the last validation visited the leaf l
Visited(l) == \E i \in DOMAIN calls : calls[i].owner = l

(***************************************************************************)
(* C17  Failure propagation, amended: when a leaf at any depth fails its   *)
(* validation, validateGroup()/validateForm() of every enclosing group and *)
(* of the form returns a failure; when the walk reaches that leaf (no      *)
(* child visited before it failed) the failure carries exactly that leaf   *)
(* validator's error, not wrapped or altered.                              *)
(***************************************************************************)
C17_ReachedLeafErrorCarried ==
    IsGroupValidation =>
       \A l \in LeavesBelow(heap, last.target) :
           ~FieldValidate(heap, l).res.right =>
              /\ ~last.res.right
              /\ Visited(l) => last.res = FieldValidate(heap, l).res

\* validateForm returned the error of a failing leaf that lies below a group
\* below a group
C17_Witness ==
    /\ last.op = "validateForm"
    /\ \E g \in GroupsBelow(heap, last.target) :
          \E c \in GroupsBelow(heap, g) :
            \E l \in LeavesBelow(heap, c) :
                /\ ~FieldValidate(heap, l).res.right
                /\ Visited(l)
                /\ last.res = FieldValidate(heap, l).res

(***************************************************************************)
(* C18  Success value, as claimed: when validateGroup()/validateForm()     *)
(* succeeds, the success value it carries is the node's current children   *)
(* mapping, for every list of group-level or form-level validators that    *)
(* all return success.                                                     *)
(***************************************************************************)
C18_SuccessCarriesFields ==
    (IsGroupValidation /\ last.res.right)
    => last.res.val = Ref(heap[last.target].fields)

(***************************************************************************)
(* C18  Success value, amended: when validateGroup()/validateForm()        *)
(* succeeds, the success value it carries is the value carried by the      *)
(* success of the node's last group-level or form-level validator; it is   *)
(* the node's current children mapping when that validator returns the     *)
(* mapping it was given, and when the node has no such validator.          *)
(***************************************************************************)
C18_SuccessCarriesLastValidatorValue ==
    (IsGroupValidation /\ last.res.right) =>
       LET vs == heap[last.target].validators
           fields == heap[last.target].fields
           lastResult == ApplyGroupValidator(heap, vs[Len(vs)], fields)
       IN  /\ vs = <<>> => last.res.val = Ref(fields)
           /\ vs # <<>> => last.res = lastResult
           /\ (vs # <<>> /\ lastResult = Right(Ref(fields)))
                  => last.res.val = Ref(fields)

\* a form with two form-level validators, a group below it with validators
\* of its own, validated with success
C18_Witness ==
    /\ last.op = "validateForm"
    /\ last.res.right
    /\ Len(heap[last.target].validators) = 2
    /\ \E g \in GroupsBelow(heap, last.target) : heap[g].validators # <<>>
    /\ last.res.val = Ref(heap[last.target].fields)

(***************************************************************************)
(* Vocabulary of the write properties                                      *)
(***************************************************************************)
IsWrite ==
    last.op \in {"setValueByPath", "setFieldValue", "group.setNewValue",
                 "field.setNewValue"}

\* the last call was a write aimed at a leaf: by its path, by its key, or
\* on the leaf itself
TargetsLeaf ==
    \/ SetAtLeaf
    \/ /\ last.op \in {"setFieldValue", "group.setNewValue"}
       /\ last.path \in DOMAIN heap[TargetFields].child
       /\ heap[heap[TargetFields].child[last.path]].kind = "field"
    \/ last.op = "field.setNewValue"

\* the leaf that stands, in what the last write returned, where the write
\* was aimed
WrittenLeaf ==
    IF last.op = "field.setNewValue" THEN last.ret.v
    ELSE IF last.op = "setValueByPath"
    THEN NodeAt(heap, heap[last.ret.v].fields, Split(last.path))
    ELSE heap[heap[last.ret.v].fields].child[last.path]

\* the leaf the last write was aimed at, in the receiver
AimedLeaf ==
    IF last.op = "field.setNewValue" THEN last.target
    ELSE IF last.op = "setValueByPath"
    THEN NodeAt(heap, TargetFields, Split(last.path))
    ELSE heap[TargetFields].child[last.path]

(***************************************************************************)
(* C19  No validation on write: setValueByPath, setFieldValue and          *)
(* setNewValue invoke no validator and accept every value; a write of a    *)
(* value that fails the leaf's validators succeeds and returns a tree (or  *)
(* leaf) holding that value, and the failure is what a later validate()    *)
(* of that leaf reports.                                                   *)
(***************************************************************************)
C19_NoValidationOnWrite ==
    IsWrite =>
       /\ calls = <<>>
       /\ TargetsLeaf =>
             /\ ~last.threw
             /\ heap[WrittenLeaf].kind = "field"
             /\ heap[WrittenLeaf].value = last.value
             /\ FieldValidate(heap, WrittenLeaf).res =
                    FieldReduce(heap, AimedLeaf, 1, Right(last.value), <<>>).res

\* a leaf below a group that validated was given, by setValueByPath, a
\* value that its validators reject
C19_Witness ==
    /\ IsSet
    /\ SetAtLeaf
    /\ Len(Split(last.path)) >= 2
    /\ ~last.threw
    /\ FieldValidate(heap, AimedLeaf).res.right
    /\ ~FieldValidate(heap, WrittenLeaf).res.right

(***************************************************************************)
(* Vocabulary of the password form                                         *)
(***************************************************************************)
PasswordPath == Join(<<Security, Password>>)

ConfirmPasswordPath == Join(<<Security, ConfirmPassword>>)

\* the two passwords that the form f holds are the same
PasswordsAgree(f) ==
    FormGetValueByPath(heap, f, PasswordPath).ret =
    FormGetValueByPath(heap, f, ConfirmPasswordPath).ret

\* what the form f holds at path q once the last write has been applied
AfterWrite(f, q) ==
    IF last.path = q THEN last.value ELSE FormGetValueByPath(heap, f, q).ret

(***************************************************************************)
(* C20  Group validators are evaluated against the group's current         *)
(* children: the form { security: Group({password, confirmPassword},       *)
(* passwordsMatch) } fails validation with "Passwords must match" when the *)
(* two leaves differ ("a" and "b"), and the form obtained from it by       *)
(* setValueByPath so that both leaves hold "a" validates successfully.     *)
(***************************************************************************)
C20_PasswordsMatchOnCurrentChildren ==
    /\ last.op = "validateForm" =>
          /\ last.res.right <=> PasswordsAgree(last.target)
          /\ ~last.res.right => last.res = Left("Passwords must match")
          /\ \A i \in DOMAIN calls :
                calls[i].arg =
                    Ref(heap[NodeAt(heap, TargetFields, <<Security>>)].fields)
    /\ (IsSet /\ SetAtLeaf /\ ~last.threw) =>
          (ValidateForm(heap, last.ret.v).res.right
              <=> AfterWrite(last.target, PasswordPath)
                     = AfterWrite(last.target, ConfirmPasswordPath))

\* the form constructed with "a" and "b" fails with "Passwords must match";
\* the form that setValueByPath made of it, with "a" and "a", validates
C20_Witness ==
    /\ last.op = "validateForm"
    /\ last.target # ConstructedForm
    /\ FormGetValueByPath(heap, ConstructedForm, PasswordPath).ret = Str("a")
    /\ FormGetValueByPath(heap, ConstructedForm, ConfirmPasswordPath).ret = Str("b")
    /\ ValidateForm(heap, ConstructedForm).res = Left("Passwords must match")
    /\ FormGetValueByPath(heap, last.target, PasswordPath).ret = Str("a")
    /\ FormGetValueByPath(heap, last.target, ConfirmPasswordPath).ret = Str("a")
    /\ last.res.right
    /\ last.res.val = Ref(TargetFields)

(***************************************************************************)
(* C21  README scenario: the form { name: 'John', age: 25, address: {      *)
(* street: '123 Main St', city: 'New York' } } with notEmpty, isValidAge,  *)
(* addressValidator and userEligibilityValidator, after                    *)
(* setFieldValue('age', 16) and setValueByPath('address.street', ''),      *)
(* validates to Left 'User must be 18+ and have a complete address'.       *)
(***************************************************************************)
\* the form f holds the values of updatedForm
IsUpdatedForm(f) ==
    /\ FormGetValueByPath(heap, f, NameKey).ret = Str("John")
    /\ FormGetValueByPath(heap, f, AgeKey).ret = Age(16)
    /\ FormGetValueByPath(heap, f, Join(<<AddressKey, StreetKey>>)).ret = Str("")
    /\ FormGetValueByPath(heap, f, Join(<<AddressKey, CityKey>>)).ret = Str("New York")

C21_ReadmeScenario ==
    (last.op = "validateForm" /\ IsUpdatedForm(last.target))
    => last.res = Left("User must be 18+ and have a complete address")

(***************************************************************************)
(* C22  Value types are kept: after any sequence of setValueByPath and     *)
(* setFieldValue calls (as their signatures type them: the new value has   *)
(* the value type of the leaf at the path), each leaf of each form holds a *)
(* value of the type of the value the leaf was constructed with.           *)
(***************************************************************************)
\* typeof of the value at the leaf path p of the form f
TypeAt(f, p) == FormGetValueByPath(heap, f, Join(p)).ret.t

C23_FieldsViewReadOnly ==
    [][\A f \in Objects("form") : TreeValue(heap', f) = TreeValue(heap, f)]_vars

(***************************************************************************)
(* C24  Several callers may hold the same form and interleave              *)
(* getValueByPath, setValueByPath and validateForm on it: no call changes  *)
(* any object of a tree version that already exists, so every read and     *)
(* every validation of a version gives what it gave before the others'     *)
(* writes, and each successful write returns a version of its own, an      *)
(* object that did not exist before the call.                              *)
(***************************************************************************)
\* what the callers can observe of a form: its tree, every read, its validation
Version(h, f) ==
    [tree  |-> TreeValue(h, f),
     reads |-> [path \in ChainPathInputs(h, f) |-> Observed(FormGetValueByPath(h, f, path))],
     valid |-> ValidateForm(h, f).res]

\* objects get their identities in the order of allocation: the heap up to
\* a form is the heap as it was when the form was returned
AsCreated(f) == SubSeq(heap, 1, f)

C24_VersionsUntouched ==
    /\ [](\A f \in held : /\ heap[f].fields < f
                          /\ Version(heap, f) = Version(AsCreated(f), f))
    /\ [][/\ SubSeq(heap', 1, Len(heap)) = heap
       /\ \A f \in held : TreeValue(heap', f) = TreeValue(heap, f)
       /\ (last'.op = "setValueByPath" /\ ~last'.threw) =>
              /\ last'.ret.v > Len(heap)
              /\ heap'[last'.ret.v].kind = "form"
              /\ held' = held \cup {last'.ret.v}]_vars

\* two callers have written to the constructed form, each at a leaf whose
\* value it changed, and another call has come after the first write
C24_Witness ==
    /\ SetSucceeded
    /\ last.target = ConstructedForm
    /\ TreeValue(heap, last.ret.v) # TreeValue(heap, ConstructedForm)
    /\ \E g \in held \ {ConstructedForm, last.ret.v} :
          /\ TreeValue(heap, g) # TreeValue(heap, ConstructedForm)
          /\ TreeValue(heap, g) # TreeValue(heap, last.ret.v)

(***************************************************************************)
(* C25  Writes to different fields commute: for distinct leaf paths p and  *)
(* q, setValueByPath(p, v) followed by setValueByPath(q, w) yields a form  *)
(* with the same value at every path as the two writes in the reverse      *)
(* order, and that form holds v at p and w at q.                           *)
(***************************************************************************)
\* what getValueByPath returns at every leaf path of the form r returned
ValuesOf(r) ==
    [path \in ChainPathInputs(r.heap, r.ret.v) |->
        Observed(FormGetValueByPath(r.heap, r.ret.v, path))]

\* the last call wrote w at q; p then q from the same receiver, and p after
\* the last call, for every other leaf path p and every value v
C25_WritesCommute ==
    (SetSucceeded /\ SetAtLeaf) =>
        \A p \in ChainPathInputs(heap, last.target) \ {last.path, <<"q">>} :
          \A v \in WriteValues :
            LET qp == FormSetValueByPath(heap, last.ret.v, p, v)
                pt == FormSetValueByPath(heap, last.target, p, v)
                pq == FormSetValueByPath(pt.heap, pt.ret.v, last.path, last.value)
            IN  /\ ~qp.threw /\ ~pt.threw /\ ~pq.threw
                /\ ValuesOf(qp) = ValuesOf(pq)
                /\ ValuesOf(qp)[p].ret = v
                /\ ValuesOf(qp)[last.path].ret = last.value
                /\ TreeValue(qp.heap, qp.ret.v) = TreeValue(pq.heap, pq.ret.v)

\* a second write in a row, at another leaf than the one the receiver was
\* made by, each with a value the leaf did not hold
C25_Witness ==
    /\ SetSucceeded /\ SetAtLeaf
    /\ last.target # ConstructedForm
    /\ FormGetValueByPath(heap, last.target, last.path).ret # last.value
    /\ FormGetValueByPath(heap, last.target, last.path) =
           FormGetValueByPath(heap, ConstructedForm, last.path)
    /\ \E p \in ChainPathInputs(heap, last.target) \ {last.path, <<"q">>} :
           FormGetValueByPath(heap, last.target, p).ret #
               FormGetValueByPath(heap, ConstructedForm, p).ret

(***************************************************************************)
(* C26  validateGroup()/validateForm() visit the children of the node in   *)
(* the order they were declared and, once a child has failed, invoke no    *)
(* validator of any sibling declared after it: none of a later leaf, and   *)
(* neither a leaf validator nor a group validator of a later nested group. *)
(***************************************************************************)
\* a child and every node below it
Within(h, c) ==
    IF h[c].kind = "field" THEN {c} ELSE {c} \cup LeavesBelow(h, c) \cup GroupsBelow(h, c)

\* the child of the validated node that the literal declares i-th
DeclaredChild(i) ==
    heap[TargetFields].child[heap[TargetFields].declared[i]]

C26_NoLaterSiblingValidated ==
    IsGroupValidation =>
       \A i, j \in DOMAIN heap[TargetFields].declared :
          i < j =>
             /\ \A a, b \in DOMAIN calls :
                   (/\ calls[a].owner \in Within(heap, DeclaredChild(i))
                    /\ calls[b].owner \in Within(heap, DeclaredChild(j))) => a < b
             /\ ~ChildValidation(heap, DeclaredChild(i)).right =>
                   \A b \in DOMAIN calls :
                       calls[b].owner \notin Within(heap, DeclaredChild(j))

(***************************************************************************)
(* C27  FormField.validate() is the left-to-right chain of the leaf's      *)
(* validators: the first is applied to the stored value, each later one to *)
(* the success value the validator before it returned, not to the stored   *)
(* value; a successful result carries the value the last validator         *)
(* returned (the stored value when there is no validator), and the stored  *)
(* value of the leaf stays what it was.                                    *)
(***************************************************************************)
RECURSIVE ChainFrom(_, _, _)
\* validators vs[i..] chained onto the result acc
ChainFrom(vs, i, acc) ==
    IF i > Len(vs) \/ ~acc.right THEN acc
    ELSE ChainFrom(vs, i + 1, ApplyFieldValidator(vs[i], acc.val))

C27_ValidateIsChain ==
    /\ [](last.op = "validate" =>
            LET vs == heap[last.target].validators
                stored == heap[last.target].value
                Outcome(i) == ApplyFieldValidator(vs[i], calls[i].arg)
            IN  /\ last.res = ChainFrom(vs, 1, Right(stored))
                /\ calls # <<>> => calls[1].arg = stored
                /\ \A i \in 1..(Len(calls) - 1) :
                      Outcome(i).right /\ calls[i + 1].arg = Outcome(i).val
                /\ last.res.right =>
                      /\ Len(calls) = Len(vs)
                      /\ vs = <<>> => last.res.val = stored
                      /\ vs # <<>> => last.res.val = Outcome(Len(vs)).val)
    /\ [][last'.op = "validate" => heap' = heap]_vars

\* a leaf validated with success whose second validator was handed a value
\* other than the stored one and whose result is a third value
C27_Witness ==
    /\ last.op = "validate"
    /\ Len(calls) = 2
    /\ calls[2].arg # heap[last.target].value
    /\ last.res.right
    /\ last.res.val \notin {heap[last.target].value, calls[2].arg}

(***************************************************************************)
(* C28  Shape invariant: after any sequence of successful setValueByPath   *)
(* and setFieldValue calls the form has the same keys at every level, the  *)
(* same kind of node (leaf or group) at every key and the same order of    *)
(* children as the form it started from; only values of leaves differ.     *)
(***************************************************************************)
RECURSIVE Shape(_, _)
\* a tree without its leaf values: kinds, keys in enumeration order, children
Shape(h, id) ==
    IF h[id].kind = "field" THEN [kind |-> "field", keys |-> <<>>, children |-> NoChild]
    ELSE [kind |-> h[id].kind,
          keys |-> h[h[id].fields].keys,
          children |-> [k \in DOMAIN h[h[id].fields].child |->
                           Shape(h, h[h[id].fields].child[k])]]

C28_ShapeKept ==
    \A f \in held \cap Objects("form") : Shape(heap, f) = Shape(heap, ConstructedForm)

\* a write to a form that was itself written to, after which the age and the
\* street are no longer what the form was constructed with
C28_Witness ==
    /\ last.op \in {"setValueByPath", "setFieldValue"} /\ ~last.threw
    /\ last.target # ConstructedForm
    /\ FormGetValueByPath(heap, last.ret.v, AgeKey).ret #
           FormGetValueByPath(heap, ConstructedForm, AgeKey).ret
    /\ FormGetValueByPath(heap, last.ret.v, Join(<<AddressKey, StreetKey>>)).ret #
           FormGetValueByPath(heap, ConstructedForm, Join(<<AddressKey, StreetKey>>)).ret
    /\ Shape(heap, last.ret.v).keys = <<NameKey, AgeKey, AddressKey>>

(***************************************************************************)
(* C29  The FormBase path engine and the path engine of Form.ts give the   *)
(* same outcome for getValueByPath and setValueByPath on every tree and    *)
(* every path string: the same returned value, or a new tree that is the   *)
(* same by value, or a failure in both; for paths that end at a leaf, end  *)
(* at a group, contain an absent key or are empty.                         *)
(***************************************************************************)
\* two reads agree: both throw, or both return the same value
SameRead(a, b) == a.threw = b.threw /\ (~a.threw => a.ret = b.ret)

\* two writes agree: both throw, or both return forms that are the same tree
SameWrite(a, b) ==
    /\ a.threw = b.threw
    /\ ~a.threw => TreeValue(a.heap, a.ret.v) = TreeValue(b.heap, b.ret.v)

C29_EnginesAgree ==
    /\ IsGet => SameRead(FormGetValueByPath(heap, last.target, last.path),
                         FormBaseGetValueByPath(heap, last.target, last.path))
    /\ IsSet => SameWrite(FormSetValueByPath(heap, last.target, last.path, last.value),
                          FormBaseSetValueByPath(heap, last.target, last.path, last.value))

(***************************************************************************)
(* C30  For every top-level key k, setFieldValue(k, v) and                 *)
(* setValueByPath(k, v) have the same outcome: when k names a leaf both    *)
(* return a form with the same value at every path and the same            *)
(* validators; when k names a group or is absent both throw.               *)
(***************************************************************************)
\* the last call was setFieldValue or setValueByPath with a top-level key
WroteByKey ==
    /\ last.op \in {"setFieldValue", "setValueByPath"}
    /\ last.path \in TopLevelKeyInputs(heap, last.target)

\* the key of the last call names a leaf of the receiver
KeyOfLeaf ==
    /\ last.path \in DOMAIN heap[TargetFields].child
    /\ heap[heap[TargetFields].child[last.path]].kind = "field"

\* both calls, made on the receiver with the key and value of the last call
SameOutcomeByKey ==
    LET byKey  == SetOwnField(heap, last.target, last.path, last.value)
        byPath == FormSetValueByPath(heap, last.target, last.path, last.value)
    IN  /\ SameWrite(byKey, byPath)
        /\ KeyOfLeaf => ~byKey.threw /\ ~byPath.threw
        /\ ~KeyOfLeaf => byKey.threw /\ byPath.threw
        /\ last.threw = byKey.threw

C30_SameOutcomeEveryKey == WroteByKey => SameOutcomeByKey

(***************************************************************************)
(* C30, amended: for every top-level key k that contains no '.',           *)
(* setFieldValue(k, v) and setValueByPath(k, v) have the same outcome:     *)
(* when k names a leaf both return a form with the same value at every     *)
(* path and the same validators; when k names a group or is absent both    *)
(* throw.  A key with a '.' is read by setValueByPath as a path of two     *)
(* segments.                                                               *)
(***************************************************************************)
HasDot(k) == \E i \in DOMAIN k : k[i] = "."

C30_SameOutcomeKeyWithoutDot == (WroteByKey /\ ~HasDot(last.path)) => SameOutcomeByKey

\* setFieldValue with the key of a leaf has returned a form with a value the
\* leaf did not hold, on a form that has validators
C30_Witness ==
    /\ last.op = "setFieldValue" /\ ~last.threw
    /\ KeyOfLeaf /\ ~HasDot(last.path)
    /\ heap[last.ret.v].validators # <<>>
    /\ TreeValue(heap, last.ret.v) # TreeValue(heap, last.target)

====
